---- MODULE Spec2Model ----
(***************************************************************************)
(* TOL Sales Targeting Dashboard (app.py).                                 *)
(*                                                                         *)
(* The server process holds one global, the DataFrame `data`, loaded once. *)
(* The layout is computed once from it.  The filter state lives in the     *)
(* browsers: each of the four Dash callbacks is invoked with the control   *)
(* values a browser sends.                                                 *)
(*                                                                         *)
(* Numbers: a metric cell is a float; it is held here in fixed point, in   *)
(* halves (the cell 1.5 is 3).  Slider values are Python ints.             *)
(***************************************************************************)
EXTENDS Integers, Sequences, FiniteSets

VARIABLES data, loaded, layout, filter, call, ret, prev

vars == <<data, loaded, layout, filter, call, ret, prev>>

----------------------------------------------------------------------------
(* Bounds of the model *)

\* longest dataset (rows)
MaxRows == 2
\* largest small metric value, in halves
MaxMetric == 2
\* largest slider position a request moves a handle to
MaxSlider == 1

----------------------------------------------------------------------------
(* Values *)

\* Python's None, and the values of the four categorical columns
None == "<None>"
Provinces == {"P1", "P2"}
Districts == {"D1", "D2"}
SubDistricts == {"S1", "S2"}
HappyBlocks == {"H1", "H2"}

\* metric cells, in halves: -0.5, 0 .. MaxMetric/2, and 101.0
MetricVals == {-1} \cup (0 .. MaxMetric) \cup {202}

\* a row whose five filtered metrics all hold m
MetricRow(m) ==
    [idx |-> 0, Province |-> "P1", District |-> "D1", SubDistrict |-> "S1",
     HappyBlock |-> "H1", NetAdd |-> m, PotentialScore |-> m,
     PortUtilize |-> m, MarketShareTrue |-> m, L2Aging |-> m]

\* a row at a place, its metrics 0
PlaceRow(p, d, s, h) ==
    [MetricRow(0) EXCEPT !.Province = p, !.District = d, !.SubDistrict = s,
                         !.HappyBlock = h]

\* the rows a dataset is made of: the base row with one column changed
RowPool ==
    {MetricRow(m) : m \in MetricVals}
        \cup {PlaceRow(p, "D1", "S1", "H1") : p \in Provinces}
        \cup {PlaceRow("P1", d, "S1", "H1") : d \in Districts}
        \cup {PlaceRow("P1", "D1", s, "H1") : s \in SubDistricts}
        \cup {PlaceRow("P1", "D1", "S1", h) : h \in HappyBlocks}

\* pd.read_csv gives the rows a RangeIndex 0, 1, ...
Indexed(s) == [i \in 1 .. Len(s) |-> [s[i] EXCEPT !.idx = i - 1]]

DatasetPool ==
    {Indexed(s) : s \in UNION {[1 .. n -> RowPool] : n \in 1 .. MaxRows}}

----------------------------------------------------------------------------
(* pandas and Python helpers *)

\* truth value of a callback argument in `if x:`: None and '' are false
Truthy(v) == v /= None /\ v /= ""

\* filtered[filtered[col] == v]: boolean-mask selection, rows keep their order
WhereEq(f, col, v) == SelectSeq(f, LAMBDA r : r[col] = v)

\* faulty variant of FilterIf: the mask is applied without the `if v:` test
FilterIf_unguarded(f, col, v) == WhereEq(f, col, v)

\* `if v: filtered = filtered[filtered[col] == v]`
FilterIf(f, col, v) == IF Truthy(v) THEN WhereEq(f, col, v) ELSE f

\* filtered[col]
Column(f, col) == [i \in 1 .. Len(f) |-> f[i][col]]

\* Series.unique(): the distinct values in order of first appearance
RECURSIVE unique(_)
unique(s) ==
    IF s = <<>> THEN <<>>
    ELSE <<Head(s)>> \o SelectSeq(unique(Tail(s)), LAMBDA x : x /= Head(s))

\* [{'label': v, 'value': v} for v in ...]
Options(vals) == [i \in 1 .. Len(vals) |-> [label |-> vals[i], value |-> vals[i]]]

\* an int slider value as a fixed-point number in halves
Fixed(i) == i * 2

\* int(x) of a float held in halves: truncation toward zero
IntTrunc(h) == IF h >= 0 THEN h \div 2 ELSE -((-h) \div 2)

ColMin(d, col) ==
    CHOOSE m \in {d[i][col] : i \in 1 .. Len(d)} :
        \A i \in 1 .. Len(d) : m <= d[i][col]

ColMax(d, col) ==
    CHOOSE m \in {d[i][col] : i \in 1 .. Len(d)} :
        \A i \in 1 .. Len(d) : m >= d[i][col]

----------------------------------------------------------------------------
(* Layout *)

\* value=[int(data[col].min()), int(data[col].max())]
ObservedRange(d, col) == <<IntTrunc(ColMin(d, col)), IntTrunc(ColMax(d, col))>>

\* the province options and the initial values of the five range sliders
Layout(d) ==
    [province_options |-> Options(unique(Column(d, "Province"))),
     net_add |-> ObservedRange(d, "NetAdd"),
     potential_score |-> ObservedRange(d, "PotentialScore"),
     port_util |-> <<0, 100>>,
     market_share_true |-> <<0, 100>>,
     l2_aging |-> ObservedRange(d, "L2Aging")]

----------------------------------------------------------------------------
(* Callbacks.  Each gives the global `data` after the call and the value   *)
(* returned.                                                               *)

\* faulty variant of update_district_options: the province is compared with
\* the District column
update_district_options_wrong_column(d, selected_province) ==
    [data |-> d,
     ret |-> IF Truthy(selected_province)
             THEN Options(unique(Column(
                      WhereEq(d, "District", selected_province), "District")))
             ELSE <<>>]

update_district_options(d, selected_province) ==
    [data |-> d,
     ret |-> IF Truthy(selected_province)
             THEN Options(unique(Column(
                      WhereEq(d, "Province", selected_province), "District")))
             ELSE <<>>]

\* faulty variant of update_subdistrict_options: `filtered = data` without
\* copy() and a filter that drops the rows in place
update_subdistrict_options_inplace(d, selected_province, selected_district) ==
    LET f1 == FilterIf(d, "Province", selected_province)
        f2 == FilterIf(f1, "District", selected_district)
    IN  [data |-> f2, ret |-> Options(unique(Column(f2, "SubDistrict")))]

update_subdistrict_options(d, selected_province, selected_district) ==
    LET f1 == FilterIf(d, "Province", selected_province)
        f2 == FilterIf(f1, "District", selected_district)
    IN  [data |-> d, ret |-> Options(unique(Column(f2, "SubDistrict")))]

update_happyblock_options(d, selected_province, selected_district, selected_subdistrict) ==
    LET f1 == FilterIf(d, "Province", selected_province)
        f2 == FilterIf(f1, "District", selected_district)
        f3 == FilterIf(f2, "SubDistrict", selected_subdistrict)
    IN  [data |-> d, ret |-> Options(unique(Column(f3, "HappyBlock")))]

\* the four `if x: filtered = filtered[...]` of update_map
CategoricalFilter(d, province, district, subdistrict, happy_block) ==
    LET f1 == FilterIf(d, "Province", province)
        f2 == FilterIf(f1, "District", district)
        f3 == FilterIf(f2, "SubDistrict", subdistrict)
    IN  FilterIf(f3, "HappyBlock", happy_block)

\* faulty variant of Between: `<` for `<=` at the upper bound
Between_open_above(r, col, range) ==
    r[col] >= Fixed(range[1]) /\ r[col] < Fixed(range[2])

\* (filtered[col] >= range[0]) & (filtered[col] <= range[1])
Between(r, col, range) ==
    r[col] >= Fixed(range[1]) /\ r[col] <= Fixed(range[2])

\* the rows of f, last first
Reversed(f) == [i \in 1 .. Len(f) |-> f[Len(f) + 1 - i]]

\* faulty variant of RangeFilter: the selection comes out in descending order
RangeFilter_descending(f, net_add_range, potential_score_range, port_util_range, market_share_true_range, l2_aging_range) ==
    Reversed(SelectSeq(f, LAMBDA r :
        /\ Between(r, "NetAdd", net_add_range)
        /\ Between(r, "PotentialScore", potential_score_range)
        /\ Between(r, "PortUtilize", port_util_range)
        /\ Between(r, "MarketShareTrue", market_share_true_range)
        /\ Between(r, "L2Aging", l2_aging_range)))

\* the conjunction of the ten comparisons, as a selection of rows
RangeFilter(f, net_add_range, potential_score_range, port_util_range, market_share_true_range, l2_aging_range) ==
    SelectSeq(f, LAMBDA r :
        /\ Between(r, "NetAdd", net_add_range)
        /\ Between(r, "PotentialScore", potential_score_range)
        /\ Between(r, "PortUtilize", port_util_range)
        /\ Between(r, "MarketShareTrue", market_share_true_range)
        /\ Between(r, "L2Aging", l2_aging_range))

\* the figure returned when filtered.empty
EmptyScene ==
    [data |-> <<>>, title |-> "No data available",
     mapbox_style |-> "open-street-map"]

\* one marker of px.scatter_mapbox: the row it stands for (its index gives
\* Latitude, Longitude, Port Use and the hover columns), hover name, colour
Point(r) == [idx |-> r.idx, hover_name |-> r.SubDistrict, color |-> r.PotentialScore]

\* px.scatter_mapbox(filtered, ...) followed by fig.update_layout(...)
ScatterMapbox(f) ==
    [data |-> [i \in 1 .. Len(f) |-> Point(f[i])],
     title |-> "Potential Score and Sales Insights",
     mapbox_style |-> "open-street-map"]

\* faulty variant of update_map: no `if filtered.empty` branch
update_map_no_empty_branch(d, province, district, subdistrict, happy_block, net_add_range, potential_score_range, port_util_range, market_share_true_range, l2_aging_range) ==
    LET filtered ==
            RangeFilter(
                CategoricalFilter(d, province, district, subdistrict, happy_block),
                net_add_range, potential_score_range, port_util_range,
                market_share_true_range, l2_aging_range)
    IN  [data |-> d, ret |-> ScatterMapbox(filtered)]

\* faulty variant of update_map: the filtered frame is assigned to the global
update_map_global(d, province, district, subdistrict, happy_block, net_add_range, potential_score_range, port_util_range, market_share_true_range, l2_aging_range) ==
    LET filtered ==
            RangeFilter(
                CategoricalFilter(d, province, district, subdistrict, happy_block),
                net_add_range, potential_score_range, port_util_range,
                market_share_true_range, l2_aging_range)
    IN  [data |-> filtered,
         ret |-> IF filtered = <<>> THEN EmptyScene ELSE ScatterMapbox(filtered)]

update_map(d, province, district, subdistrict, happy_block, net_add_range, potential_score_range, port_util_range, market_share_true_range, l2_aging_range) ==
    LET filtered ==
            RangeFilter(
                CategoricalFilter(d, province, district, subdistrict, happy_block),
                net_add_range, potential_score_range, port_util_range,
                market_share_true_range, l2_aging_range)
    IN  [data |-> d,
         ret |-> IF filtered = <<>> THEN EmptyScene ELSE ScatterMapbox(filtered)]

----------------------------------------------------------------------------
(* The controls of a browser *)

\* the values of the nine controls
Controls(p, d, s, h, na, ps, pu, ms, l2) ==
    [province |-> p, district |-> d, subdistrict |-> s, happy_block |-> h,
     net_add |-> na, potential_score |-> ps, port_util |-> pu,
     market_share_true |-> ms, l2_aging |-> l2]

Sliders ==
    {"net_add", "potential_score", "port_util", "market_share_true", "l2_aging"}

\* what a dropdown can send: nothing (None; '' from the province dropdown), a value
ProvinceInputs == {None, ""} \cup Provinces
DistrictInputs == {None} \cup Districts
SubDistrictInputs == {None} \cup SubDistricts
HappyBlockInputs == {None} \cup HappyBlocks

\* a range that no metric value of the model falls outside
WideRange == <<-1, 101>>

\* where a request can put the two handles of a slider
SliderPairs ==
    {pr \in (0 .. MaxSlider) \X (0 .. MaxSlider) : pr[1] <= pr[2]}

\* the controls as the layout sets them: no selection, the sliders' `value`
InitialControls(l) ==
    Controls(None, None, None, None, l.net_add, l.potential_score, l.port_util,
             l.market_share_true, l.l2_aging)

WideControls ==
    Controls(None, None, None, None, WideRange, WideRange, WideRange, WideRange,
             WideRange)

\* the control values of the model: any four selections with the sliders at
\* their initial values; no selection and one slider moved, the others wide
ControlPool(l) ==
    {[InitialControls(l) EXCEPT !.province = p, !.district = d,
                                !.subdistrict = s, !.happy_block = h] :
        p \in ProvinceInputs, d \in DistrictInputs, s \in SubDistrictInputs,
        h \in HappyBlockInputs}
    \cup {[WideControls EXCEPT ![k] = pr] : k \in Sliders, pr \in SliderPairs}

----------------------------------------------------------------------------
(* The state machine *)

\* data:   the global DataFrame
\* loaded: the DataFrame as read at start-up
\* layout: app.layout
\* filter: the control values the browser sends with its next request
\* call:   the callback that answered last ("none" before the first)
\* ret:    what it returned
\* prev:   the callback that had answered last when the page was last loaded
Init ==
    /\ data \in DatasetPool
    /\ loaded = data
    /\ layout = Layout(data)
    /\ filter \in ControlPool(layout)
    /\ call = "none"
    /\ ret = <<>>
    /\ prev = "none"

UpdateDistrictOptions ==
    LET r == update_district_options(data, filter.province)
    IN  /\ data' = r.data
        /\ ret' = r.ret
        /\ call' = "update_district_options"
        /\ UNCHANGED <<loaded, layout, filter, prev>>

UpdateSubdistrictOptions ==
    LET r == update_subdistrict_options(data, filter.province, filter.district)
    IN  /\ data' = r.data
        /\ ret' = r.ret
        /\ call' = "update_subdistrict_options"
        /\ UNCHANGED <<loaded, layout, filter, prev>>

UpdateHappyblockOptions ==
    LET r == update_happyblock_options(data, filter.province, filter.district,
                                       filter.subdistrict)
    IN  /\ data' = r.data
        /\ ret' = r.ret
        /\ call' = "update_happyblock_options"
        /\ UNCHANGED <<loaded, layout, filter, prev>>

UpdateMap ==
    LET r == update_map(data, filter.province, filter.district,
                        filter.subdistrict, filter.happy_block, filter.net_add,
                        filter.potential_score, filter.port_util,
                        filter.market_share_true, filter.l2_aging)
    IN  /\ data' = r.data
        /\ ret' = r.ret
        /\ call' = "update_map"
        /\ UNCHANGED <<loaded, layout, filter, prev>>

\* a browser loads the page: its controls hold the layout's values and its
\* outputs are empty
PageLoad ==
    /\ filter' = InitialControls(layout)
    /\ call' = "none"
    /\ ret' = <<>>
    /\ prev' = call
    /\ UNCHANGED <<data, loaded, layout>>

Next ==
    \/ UpdateDistrictOptions
    \/ UpdateSubdistrictOptions
    \/ UpdateHappyblockOptions
    \/ UpdateMap
    \/ PageLoad

Spec == Init /\ [][Next]_vars

----------------------------------------------------------------------------
(* Vocabulary of the properties *)

\* a dropdown with no selection
Unset(v) == v = None \/ v = ""

\* the values an option list offers
OptValues(o) == {o[i].value : i \in 1 .. Len(o)}

\* positions of the rows of d that agree with every selection made among the
\* first n levels (Province, District, Sub-district, Happy Block)
Agreeing(d, f, n) ==
    {i \in 1 .. Len(d) :
        /\ n >= 1 => (Unset(f.province) \/ d[i].Province = f.province)
        /\ n >= 2 => (Unset(f.district) \/ d[i].District = f.district)
        /\ n >= 3 => (Unset(f.subdistrict) \/ d[i].SubDistrict = f.subdistrict)
        /\ n >= 4 => (Unset(f.happy_block) \/ d[i].HappyBlock = f.happy_block)}

\* lo <= metric <= hi, the slider values [lo, hi] being whole numbers
Inside(m, range) == 2 * range[1] <= m /\ m <= 2 * range[2]

InsideAll(r, f) ==
    /\ Inside(r.NetAdd, f.net_add)
    /\ Inside(r.PotentialScore, f.potential_score)
    /\ Inside(r.PortUtilize, f.port_util)
    /\ Inside(r.MarketShareTrue, f.market_share_true)
    /\ Inside(r.L2Aging, f.l2_aging)

\* the index labels of the rows a figure plots
Plotted(fig) == {fig.data[i].idx : i \in 1 .. Len(fig.data)}

\* update_map on dataset d with the controls f
MapOf(d, f) ==
    update_map(d, f.province, f.district, f.subdistrict, f.happy_block,
               f.net_add, f.potential_score, f.port_util, f.market_share_true,
               f.l2_aging).ret

\* an option list holds exactly the values of column col in the rows at the
\* positions `at`, each once
ExactOptions(o, col, at) ==
    /\ OptValues(o) = {data[i][col] : i \in at}
    /\ Len(o) = Cardinality(OptValues(o))

----------------------------------------------------------------------------
(* Properties *)

\* C1: the option list an options callback returns holds exactly the values
\* of its level in the rows that agree with every selection made above it,
\* each value once.
C1_OptionsExact ==
    /\ call = "update_district_options" =>
           ExactOptions(ret, "District", Agreeing(data, filter, 1))
    /\ call = "update_subdistrict_options" =>
           ExactOptions(ret, "SubDistrict", Agreeing(data, filter, 2))
    /\ call = "update_happyblock_options" =>
           ExactOptions(ret, "HappyBlock", Agreeing(data, filter, 3))

\* C2: with no selection above it, an options callback returns the distinct
\* values of its column in the whole dataset.
C2_NoSelectionNoRestriction ==
    /\ (call = "update_district_options" /\ Unset(filter.province)) =>
           OptValues(ret) = {data[i].District : i \in 1 .. Len(data)}
    /\ (call = "update_subdistrict_options" /\ Unset(filter.province)
            /\ Unset(filter.district)) =>
           OptValues(ret) = {data[i].SubDistrict : i \in 1 .. Len(data)}
    /\ (call = "update_happyblock_options" /\ Unset(filter.province)
            /\ Unset(filter.district) /\ Unset(filter.subdistrict)) =>
           OptValues(ret) = {data[i].HappyBlock : i \in 1 .. Len(data)}

\* C3: among the rows that agree with the four selections, update_map plots
\* a row iff each of its five metrics m has lo <= m <= hi for its slider.
C3_RangeInclusive ==
    call = "update_map" =>
        \A i \in Agreeing(data, filter, 4) :
            data[i].idx \in Plotted(ret) <=> InsideAll(data[i], filter)

\* a row whose L2_Aging equals lo is plotted, a row at hi + 1 or lo - 1 is not
C3_Witness ==
    /\ call = "update_map"
    /\ \E i, j \in 1 .. Len(data) :
        /\ data[i].L2Aging = 2 * filter.l2_aging[1]
        /\ data[i].idx \in Plotted(ret)
        /\ \/ data[j].L2Aging = 2 * (filter.l2_aging[2] + 1)
           \/ data[j].L2Aging = 2 * (filter.l2_aging[1] - 1)
        /\ data[j].idx \notin Plotted(ret)

\* the rows update_map plots when control k holds v
PlottedWith(k, v) == Plotted(MapOf(data, [filter EXCEPT ![k] = v]))

Satisfying == {i \in Agreeing(data, filter, 4) : InsideAll(data[i], filter)}

\* C5: update_map returns the empty scene exactly when no row satisfies all
\* filters, and otherwise a figure with one point per satisfying row; the
\* map style is set either way.
C5_EmptySceneIffNoRow ==
    call = "update_map" =>
        /\ ret.mapbox_style = "open-street-map"
        /\ Satisfying = {} <=> ret = EmptyScene
        /\ Satisfying = {} <=> ret.title = "No data available"
        /\ Len(ret.data) = Cardinality(Satisfying)
        /\ Plotted(ret) = {data[i].idx : i \in Satisfying}

\* the selected province and the selected district both occur in the data,
\* in no common row: the empty scene
C5_Witness ==
    /\ call = "update_map"
    /\ ret = EmptyScene
    /\ \E i, j \in 1 .. Len(data) :
        /\ data[i].Province = filter.province
        /\ data[j].District = filter.district

\* the rows of the dataset a figure plots, in the figure's order
RowsPlotted(fig) ==
    [k \in 1 .. Len(fig.data) |->
        CHOOSE r \in {data[i] : i \in 1 .. Len(data)} : r.idx = fig.data[k].idx]

\* C6: the rows update_map plots are rows of the dataset in the dataset's
\* order, and update_map on those rows with the same controls plots the same.
C6_StableIdempotent ==
    call = "update_map" =>
        /\ Plotted(ret) \subseteq {data[i].idx : i \in 1 .. Len(data)}
        /\ \A k \in 1 .. Len(ret.data) - 1 :
               ret.data[k].idx < ret.data[k + 1].idx
        /\ MapOf(RowsPlotted(ret), filter) = ret

\* a selection is made and two rows are plotted
C6_Witness ==
    /\ call = "update_map"
    /\ ~Unset(filter.province)
    /\ Len(ret.data) >= 2

\* C7: no step changes the global dataset.
C7_DatasetUnchanged == [][data' = data]_vars

\* update_map has plotted fewer rows than the dataset holds, and the dataset
\* is as loaded
C7_Witness ==
    /\ call = "update_map"
    /\ Len(ret.data) < Len(data)
    /\ data = loaded

\* C8: with the controls as the layout sets them, update_map plots every row
\* of the dataset.
C8_InitialShowsAll ==
    (call = "update_map" /\ filter = InitialControls(layout)) =>
        Len(ret.data) = Len(data)

\* C9: whatever happened before, a callback returns what it returns for the
\* same control values on the dataset as loaded.
C9_HistoryIndependent ==
    /\ call = "update_district_options" =>
           ret = update_district_options(loaded, filter.province).ret
    /\ call = "update_subdistrict_options" =>
           ret = update_subdistrict_options(loaded, filter.province,
                                            filter.district).ret
    /\ call = "update_happyblock_options" =>
           ret = update_happyblock_options(loaded, filter.province,
                                           filter.district,
                                           filter.subdistrict).ret
    /\ call = "update_map" => ret = MapOf(loaded, filter)

\* update_map answers a browser that loaded the page after update_map had
\* answered an earlier request, and plots two rows
C9_Witness ==
    /\ prev = "update_map"
    /\ call = "update_map"
    /\ Len(ret.data) >= 2

\* each selection is one the option list for the selections above it offers
FromOptions(n) ==
    /\ (n >= 1 /\ ~Unset(filter.province)) =>
           filter.province \in OptValues(layout.province_options)
    /\ (n >= 2 /\ ~Unset(filter.district)) =>
           filter.district \in
               OptValues(update_district_options(data, filter.province).ret)
    /\ (n >= 3 /\ ~Unset(filter.subdistrict)) =>
           filter.subdistrict \in
               OptValues(update_subdistrict_options(
                             data, filter.province, filter.district).ret)
    /\ (n >= 4 /\ ~Unset(filter.happy_block)) =>
           filter.happy_block \in
               OptValues(update_happyblock_options(
                             data, filter.province, filter.district,
                             filter.subdistrict).ret)

\* C10: when every selection was taken from the option list offered for the
\* selections above it, the list of the level after a selected level is not
\* empty, and the four selections of update_map keep at least one row.
C10_CascadeConsistent ==
    /\ layout.province_options /= <<>>
    /\ (call = "update_district_options" /\ FromOptions(1)
            /\ ~Unset(filter.province)) => ret /= <<>>
    /\ (call = "update_subdistrict_options" /\ FromOptions(2)
            /\ ~Unset(filter.district)) => ret /= <<>>
    /\ (call = "update_happyblock_options" /\ FromOptions(3)
            /\ ~Unset(filter.subdistrict)) => ret /= <<>>
    /\ (call = "update_map" /\ FromOptions(4)) =>
           CategoricalFilter(data, filter.province, filter.district,
                             filter.subdistrict, filter.happy_block) /= <<>>

\* all four levels are selected from their option lists and update_map has
\* plotted a row
C10_Witness ==
    /\ call = "update_map"
    /\ FromOptions(4)
    /\ ~Unset(filter.province) /\ ~Unset(filter.district)
    /\ ~Unset(filter.subdistrict) /\ ~Unset(filter.happy_block)
    /\ Len(data) = 2
    /\ Len(ret.data) = 1

====
